---- MODULE Spec2Model ----
(***************************************************************************)
(* A model of the per-frame pipeline of soccer-demo/src/main.py:           *)
(* DetectionProcessor (crop, colour classification, stamping of the        *)
(* occupancy grid) and VideoProcessor (process_frame, process_video), and   *)
(* of the script around them (__main__: the two calibration files, their   *)
(* interactive sessions, the construction of the processor).  Spec is a    *)
(* processor built by any caller; MainSpec is the run of the script.       *)
(*                                                                         *)
(* Numbers: an image coordinate or a box coordinate is an integer; a       *)
(* projected coordinate (a float) is the exact quotient n/d, kept as the   *)
(* record [n |-> n, d |-> d]; d = 0 is the result numpy gives for a        *)
(* division by zero (inf when n # 0, nan when n = 0).  An optional value   *)
(* (None or a value) is a sequence of length 0 or 1.                       *)
(***************************************************************************)
EXTENDS Integers, Sequences, FiniteSets, TLC

\* ------------------------------------------------------------- bounds ----
\* frames the input stream holds at most
MaxFrames == 2
\* detections the tracker returns for one frame at most
MaxObjs == 2
\* width and height of the layout image (template_img.shape[1], shape[0])
LayoutW == 12
LayoutH == 2

\* ---------------------------------------------------- program constants --
\* np.zeros((h, w, 2)): the channels of the occupancy grid
NumChannels == 2
\* circle_radius = 10
circle_radius == 10
\* label 0 is the ball (draw_detected_objects)
BallLabel == 0
\* every other label is drawn as a player; the detector's player label
PlayerLabel == 1
\* len(colors) in id_to_color
NumColors == 6

\* ------------------------------------------------------------ helpers ----
Abs(a) == IF a < 0 THEN -a ELSE a

Max2(a, b) == IF a >= b THEN a ELSE b

Min2(a, b) == IF a <= b THEN a ELSE b

\* Python's int() of the float n/d (d # 0): truncation toward zero.
IntOf(n, d) ==
    LET q == Abs(n) \div Abs(d)
    IN  IF (n < 0) # (d < 0) THEN -q ELSE q

\* n/d rounded to the nearest integer, d > 0.
RoundDiv(n, d) == (2 * n + d) \div (2 * d)

\* A float is finite unless it came from a division by zero.
IsFinite(f) == f.d # 0

Cells == (0 .. LayoutW - 1) \X (0 .. LayoutH - 1)

Channels == 0 .. NumChannels - 1

\* np.zeros((h, w, 2), dtype=np.float32)
ZeroHeatmap == [ch \in Channels |-> [c \in Cells |-> 0]]

\* ------------------------------------------------------------- inputs ----
\* BGR pixels of the camera frames.
Red == <<0, 0, 255>>

Blue == <<255, 0, 0>>

Green == <<0, 255, 0>>

White == <<255, 255, 255>>

\* The camera frames of the stream: frame[row][column], 2 rows of 3 pixels.
Frames == { << <<Red, Blue, Green>>, <<Blue, Blue, White>> >> }

FrameH(frame) == Len(frame)

FrameW(frame) == Len(frame[1])

\* Calibrated HSV ranges (lower, upper), as load_hsv_ranges returns them.
RedRange == << <<0, 100, 100>>, <<10, 255, 255>> >>

BlueRange == << <<110, 100, 100>>, <<130, 255, 255>> >>

GreenRange == << <<50, 100, 100>>, <<70, 255, 255>> >>

\* self.lower_bound, self.upper_bound of a VideoSegmentation left untouched
DefaultRange == << <<0, 0, 0>>, <<179, 255, 255>> >>

\* The lists of ranges a run may be given: N = 1, 2 and 3 classes.
RangeLists ==
    { <<DefaultRange>>, <<RedRange, BlueRange>>, <<RedRange, BlueRange, GreenRange>> }

\* Detection boxes (x1, y1, x2, y2) of the tracker: a zero-area box, a box
\* inside the frame, an inverted box, a box partly outside the frame and a
\* box entirely outside it.
ZeroAreaBox == <<0, 0, 0, 0>>

InsideBox == <<1, 0, 2, 1>>

InvertedBox == <<2, 1, 0, 0>>

PartlyOutsideBox == <<2, 0, 5, 3>>

OutsideBox == <<5, 4, 6, 5>>

\* One entry of yolo_detections[0].boxes: (cls, xyxy).
Detections ==
    { [lbl |-> PlayerLabel, xyxy |-> InsideBox],
      [lbl |-> BallLabel, xyxy |-> ZeroAreaBox],
      [lbl |-> PlayerLabel, xyxy |-> PartlyOutsideBox],
      [lbl |-> PlayerLabel, xyxy |-> InvertedBox],
      [lbl |-> BallLabel, xyxy |-> OutsideBox] }

\* The detections of one frame, in the tracker's order.
DetectionLists == UNION { [1 .. n -> Detections] : n \in 0 .. MaxObjs }

\* Homography matrices, row by row: the identity, a scaling with an offset
\* (layout points inside, across the edge of and outside the grid), and a
\* matrix whose third row vanishes on the camera column x = 1.
IdentityH == << <<1, 0, 0>>, <<0, 1, 0>>, <<0, 0, 1>> >>

ScaleH == << <<20, 0, -24>>, <<0, 1000000, -1000000>>, <<0, 0, 1>> >>

DegenerateH == << <<3, 0, 0>>, <<0, 1, 0>>, <<1, 0, -1>> >>

\* H of VideoProcessor.__init__: None (<<>>) or a matrix (<<H>>).
HChoices == { <<>>, <<IdentityH>>, <<ScaleH>>, <<DegenerateH>> }

\* ---------------------------------------------------- point projection ---
Dot3(row, v) == row[1] * v[1] + row[2] * v[2] + row[3] * v[3]

\* apply_homography_to_point: append 1, multiply by H, divide the first two
\* components by the third.  numpy's division does not raise on a zero
\* divisor: the quotient is kept with d = 0 (inf or nan).
apply_homography_to_point(Hm, point) ==
    LET point_homogeneous == <<point[1], point[2], 1>>
        t == [k \in 1 .. 3 |-> Dot3(Hm[k], point_homogeneous)]
    IN  << [n |-> t[1], d |-> t[3]], [n |-> t[2], d |-> t[3]] >>

\* DetectedObject.get_bbox_bottom: (int((xmin + xmax) / 2), int(ymax))
get_bbox_bottom(bbox) == << IntOf(bbox[1] + bbox[3], 2), IntOf(bbox[4], 1) >>

\* ------------------------------------------------------ colour classes ---
Max3(a, b, c) == Max2(a, Max2(b, c))

Min3(a, b, c) == Min2(a, Min2(b, c))

\* cv2.cvtColor(., COLOR_BGR2HSV) of one 8-bit pixel: V = max, S = 255 (V -
\* min) / V, H = the hue in degrees halved.
BGR2HSV(px) ==
    LET b == px[1]
        g == px[2]
        r == px[3]
        v == Max3(b, g, r)
        diff == v - Min3(b, g, r)
        s == IF v = 0 THEN 0 ELSE RoundDiv(255 * diff, v)
        hdeg == IF diff = 0 THEN 0
                ELSE IF v = r THEN RoundDiv(60 * (g - b), diff)
                ELSE IF v = g THEN 120 + RoundDiv(60 * (b - r), diff)
                ELSE 240 + RoundDiv(60 * (r - g), diff)
        h360 == IF hdeg < 0 THEN hdeg + 360 ELSE hdeg
    IN  << h360 \div 2, s, v >>

\* cv2.inRange on one pixel: inclusive bounds on all three channels.
inRange(hsv, lower_bound, upper_bound) ==
    \A k \in 1 .. 3 : lower_bound[k] <= hsv[k] /\ hsv[k] <= upper_bound[k]

\* The indices a Python slice start:stop selects along an axis of length n:
\* a negative index counts from the end, and both ends are clamped to 0..n.
PySliceIndex(i, n) == IF i < 0 THEN Max2(i + n, 0) ELSE Min2(i, n)

PySlice(start, stop, n) == PySliceIndex(start, n) .. (PySliceIndex(stop, n) - 1)

\* frame[int(y1):int(y2)+1, int(x1):int(x2)+1, :] as the 0-based pixel
\* places (row, column) it holds.
FrameCrop(frame, xyxy) ==
    PySlice(IntOf(xyxy[2], 1), IntOf(xyxy[4], 1) + 1, FrameH(frame))
        \X PySlice(IntOf(xyxy[1], 1), IntOf(xyxy[3], 1) + 1, FrameW(frame))

\* class_scores[i] = np.sum(mask): 255 for every pixel of the crop in range.
ClassScore(frame, crop, hsv_ranges) ==
    255 * Cardinality({ rc \in crop :
              inRange(BGR2HSV(frame[rc[1] + 1][rc[2] + 1]), hsv_ranges[1], hsv_ranges[2]) })

\* ArgMax taking the last maximum instead of the first.
ArgMax_LastMax(scores) ==
    (CHOOSE i \in 1 .. Len(scores) :
        /\ \A j \in 1 .. Len(scores) : scores[j] <= scores[i]
        /\ \A j \in (i + 1) .. Len(scores) : scores[j] < scores[i]) - 1

\* np.argmax: the 0-based index of the first maximum.
ArgMax(scores) ==
    (CHOOSE i \in 1 .. Len(scores) :
        /\ \A j \in 1 .. Len(scores) : scores[j] <= scores[i]
        /\ \A j \in 1 .. (i - 1) : scores[j] < scores[i]) - 1

\* predict_class_by_color returning np.argmax as it is, without the + 1.
predict_class_by_color_ZeroBased(frame, crop, classes_hsv_ranges) ==
    IF crop = {} THEN [ok |-> FALSE, id |-> 0]
    ELSE LET class_scores == [i \in 1 .. Len(classes_hsv_ranges) |->
                                 ClassScore(frame, crop, classes_hsv_ranges[i])]
         IN  [ok |-> TRUE, id |-> ArgMax(class_scores)]

\* predict_class_by_color: cv2.cvtColor raises on an empty crop; otherwise
\* the 1-based index of the best-scoring range.
predict_class_by_color(frame, crop, classes_hsv_ranges) ==
    IF crop = {} THEN [ok |-> FALSE, id |-> 0]
    ELSE LET class_scores == [i \in 1 .. Len(classes_hsv_ranges) |->
                                 ClassScore(frame, crop, classes_hsv_ranges[i])]
         IN  [ok |-> TRUE, id |-> ArgMax(class_scores) + 1]

\* ------------------------------------------------- detection adapter -----
\* DetectedObject(bbox, obj_id, lbl): point_2d starts as None.
DetectedObject(bbox, obj_id, lbl) ==
    [bbox |-> bbox, id |-> obj_id, label |-> lbl, point_2d |-> <<>>]

\* compute_detected_objects: every detection, whatever its label, is cropped
\* as the box stands and classified; an exception of the classifier leaves
\* the loop and the method.
RECURSIVE compute_detected_objects(_, _, _, _)
compute_detected_objects(dets, frame, classes_hsv_ranges, detected_objects) ==
    IF Len(detected_objects) = Len(dets)
    THEN [ok |-> TRUE, objs |-> detected_objects]
    ELSE LET det == dets[Len(detected_objects) + 1]
             frame_crop == FrameCrop(frame, det.xyxy)
             det_id == predict_class_by_color(frame, frame_crop, classes_hsv_ranges)
         IN  IF ~det_id.ok
             THEN [ok |-> FALSE, objs |-> detected_objects]
             ELSE compute_detected_objects(dets, frame, classes_hsv_ranges,
                      Append(detected_objects,
                             DetectedObject(det.xyxy, det_id.id, det.lbl)))

\* id_to_color: colors[box_id % len(colors)], as the index of the colour.
id_to_color(box_id) == box_id % NumColors

\* draw_detected_objects: one marker per object on a copy of the frame, a
\* circle for the ball, an ellipse and a labelled triangle for the others.
draw_detected_objects(detected_objects) ==
    [i \in 1 .. Len(detected_objects) |->
        IF detected_objects[i].label = BallLabel
        THEN [shape |-> "circle", bbox |-> detected_objects[i].bbox,
              color |-> -1, text |-> -1]
        ELSE [shape |-> "ellipse_triangle", bbox |-> detected_objects[i].bbox,
              color |-> id_to_color(detected_objects[i].id),
              text |-> detected_objects[i].id]]

\* ----------------------------------------------- heatmap accumulation ----
\* The cells cv2.circle(mask, (x, y), radius, (1,), thickness=-1) sets: the
\* disk around (x, y), clipped to the image.
Disk(x, y, radius) ==
    { c \in Cells : /\ Abs(c[1] - x) <= radius
                    /\ Abs(c[2] - y) <= radius
                    /\ (c[1] - x) * (c[1] - x) + (c[2] - y) * (c[2] - y)
                           <= radius * radius }

\* CircleMask with the centre first clamped into the image.
CircleMask_ClampedCentre(x, y) ==
    [c \in Cells |->
        IF c \in Disk(Max2(0, Min2(x, LayoutW - 1)), Max2(0, Min2(y, LayoutH - 1)),
                      circle_radius)
        THEN 1 ELSE 0]

\* mask = np.zeros(...); cv2.circle(mask, (x, y), circle_radius, (1,), -1)
CircleMask(x, y) ==
    [c \in Cells |-> IF c \in Disk(x, y, circle_radius) THEN 1 ELSE 0]

\* AddMask with the mask assigned to the channel instead of added to it.
AddMask_Assign(heatmap_, id_index, mask) ==
    [heatmap_ EXCEPT ![id_index] = mask]

\* heatmap[:, :, id_index] += mask
AddMask(heatmap_, id_index, mask) ==
    [heatmap_ EXCEPT ![id_index] = [c \in Cells |-> heatmap_[id_index][c] + mask[c]]]

\* Stamp with the mask added to every channel.
Stamp_AllChannels(heatmap_, x, y, id) ==
    [ch \in Channels |-> [c \in Cells |-> heatmap_[ch][c] + CircleMask(x, y)[c]]]

\* One pass of the loop of draw_transformed_points_with_heatmap on an object
\* with a finite point and an existing channel.
Stamp(heatmap_, x, y, id) == AddMask(heatmap_, id - 1, CircleMask(x, y))

\* draw_transformed_points_with_heatmap from object i on: int() raises on a
\* non-finite coordinate (line 406) and the indexing raises on a channel the
\* grid does not have (line 422); the heatmap is updated in place, so what
\* was added before an exception stays.  frame holds the circles drawn so far.
RECURSIVE draw_transformed_points_with_heatmap(_, _, _, _)
draw_transformed_points_with_heatmap(detected_objects, i, frame, heatmap_) ==
    IF i > Len(detected_objects)
    THEN [ok |-> TRUE, raised |-> "", frame |-> frame, heatmap |-> heatmap_]
    ELSE LET detected_obj == detected_objects[i]
             p == detected_obj.point_2d[1]
         IN  IF ~IsFinite(p[1]) \/ ~IsFinite(p[2])
             THEN [ok |-> FALSE, raised |-> "int", frame |-> frame,
                   heatmap |-> heatmap_]
             ELSE IF (detected_obj.id - 1) \notin Channels
             THEN [ok |-> FALSE, raised |-> "index", frame |-> frame,
                   heatmap |-> heatmap_]
             ELSE LET x == IntOf(p[1].n, p[1].d)
                      y == IntOf(p[2].n, p[2].d)
                  IN  draw_transformed_points_with_heatmap(detected_objects, i + 1,
                          Append(frame, [x |-> x, y |-> y,
                                         color |-> id_to_color(detected_obj.id)]),
                          Stamp(heatmap_, x, y, detected_obj.id))

\* The loop of process_frame that sets point_2d of every object.
ProjectAll(Hm, detected_objects) ==
    [i \in 1 .. Len(detected_objects) |->
        [detected_objects[i] EXCEPT
            !.point_2d = << apply_homography_to_point(Hm,
                                get_bbox_bottom(detected_objects[i].bbox)) >>]]

\* process_frame with the identity standing in for a homography that is None.
process_frame_IdentityWhenNone(frame, dets, Hopt, classes_hsv_ranges, heatmap_) ==
    LET adapted == compute_detected_objects(dets, frame, classes_hsv_ranges, <<>>)
    IN  IF ~adapted.ok
        THEN [ok |-> FALSE, raised |-> "cvtColor", objs |-> adapted.objs,
              camera |-> <<>>, layout |-> <<>>, heatmap |-> heatmap_]
        ELSE LET projected == ProjectAll(IF Hopt = <<>> THEN IdentityH ELSE Hopt[1],
                                         adapted.objs)
                 drawn == draw_transformed_points_with_heatmap(projected, 1, <<>>,
                                                                heatmap_)
             IN  [ok |-> drawn.ok, raised |-> drawn.raised, objs |-> projected,
                  camera |-> draw_detected_objects(projected),
                  layout |-> drawn.frame, heatmap |-> drawn.heatmap]

\* process_frame: what it returns (ok) or the call that raises.  layout is
\* the list of circles drawn on the layout image: none when the image is
\* returned as it is.
process_frame(frame, dets, Hopt, classes_hsv_ranges, heatmap_) ==
    LET adapted == compute_detected_objects(dets, frame, classes_hsv_ranges, <<>>)
    IN  IF ~adapted.ok
        THEN [ok |-> FALSE, raised |-> "cvtColor", objs |-> adapted.objs,
              camera |-> <<>>, layout |-> <<>>, heatmap |-> heatmap_]
        ELSE IF Hopt = <<>>
        THEN [ok |-> TRUE, raised |-> "", objs |-> adapted.objs,
              camera |-> draw_detected_objects(adapted.objs),
              layout |-> <<>>, heatmap |-> heatmap_]
        ELSE LET projected == ProjectAll(Hopt[1], adapted.objs)
                 drawn == draw_transformed_points_with_heatmap(projected, 1, <<>>,
                                                                heatmap_)
             IN  [ok |-> drawn.ok, raised |-> drawn.raised, objs |-> projected,
                  camera |-> draw_detected_objects(projected),
                  layout |-> drawn.frame, heatmap |-> drawn.heatmap]

\* ------------------------------------------------------------ snapshot ---
MinOf(f) == CHOOSE m \in { f[c] : c \in Cells } : \A c \in Cells : m <= f[c]

MaxOf(f) == CHOOSE m \in { f[c] : c \in Cells } : \A c \in Cells : m >= f[c]

\* visualize_separate_heatmaps: log scaling, min-max normalisation to 0..255
\* and the colour map, channel by channel.  The colour of a cell is a
\* function of its value and of the channel's minimum and maximum: the
\* coloured channel is kept as the values with that minimum and maximum.
visualize_separate_heatmaps(heatmap_) ==
    [i \in Channels |->
        [values |-> heatmap_[i], lo |-> MinOf(heatmap_[i]), hi |-> MaxOf(heatmap_[i])]]

\* overlay_heatmap_on_image(self.template_img, heatmap_colored, alpha=0.7):
\* the fixed layout image blended with the coloured heatmap.
overlay_heatmap_on_image(heatmap_colored) == [zeros |-> FALSE, heat |-> heatmap_colored]

\* np.zeros_like(self.template_img): a black image.
ZerosLikeTemplate ==
    [zeros |-> TRUE, heat |-> [values |-> [c \in Cells |-> 0], lo |-> 0, hi |-> 0]]

\* ------------------------------------------------------------- state -----
VARIABLES
    pc,                  \* where process_video stands
    H,                   \* self.H: <<>> or <<matrix>>
    classes_hsv_ranges,  \* detection_processor.classes_hsv_ranges
    heatmap,             \* self.heatmap
    heatmap_overlay_1,   \* self.heatmap_overlay_1
    heatmap_overlay_2,   \* self.heatmap_overlay_2
    frames_left,         \* frames the input stream still holds
    detected_objects,    \* the objects of the frame process_frame worked on
    processed_frame,     \* camera pane returned by process_frame
    layout_2d,           \* layout pane returned by process_frame
    frames_written,      \* composite frames written to out_composite
    saved_heatmap_1,     \* the image file output_heatmap_1_image_path
    saved_heatmap_2,     \* the image file output_heatmap_2_image_path
    released,            \* cap and out_composite are released
    stop_cause,          \* why the frame loop or the run ended
    hsv_ranges_file,     \* the file hsv_ranges_path: <<>> or <<its content>>
    h_matrix_file,       \* the file h_matrix_path: <<>> or <<its content>>
    main_classes_hsv_ranges, \* classes_hsv_ranges of __main__: <<>> or <<list>>
    main_H,              \* H of __main__: <<>> or <<matrix>>
    segmentation_windows, \* times the 'Segmentation' window was opened
    homography_windows   \* times the points selection window was opened

\* The state of the script around the processor: the two calibration files,
\* what __main__ holds of them and the interactive windows opened so far.
main_vars ==
    << hsv_ranges_file, h_matrix_file, main_classes_hsv_ranges, main_H,
       segmentation_windows, homography_windows >>

vars ==
    << pc, H, classes_hsv_ranges, heatmap, heatmap_overlay_1, heatmap_overlay_2,
       frames_left, detected_objects, processed_frame, layout_2d, frames_written,
       saved_heatmap_1, saved_heatmap_2, released, stop_cause, main_vars >>

\* VideoProcessor.__init__, and process_video about to open the stream.
Init ==
    /\ pc = "open"
    /\ H \in HChoices
    /\ classes_hsv_ranges \in RangeLists
    /\ heatmap = ZeroHeatmap
    /\ heatmap_overlay_1 = ZerosLikeTemplate
    /\ heatmap_overlay_2 = ZerosLikeTemplate
    /\ frames_left = MaxFrames
    /\ detected_objects = <<>>
    /\ processed_frame = <<>>
    /\ layout_2d = <<>>
    /\ frames_written = 0
    /\ saved_heatmap_1 = <<>>
    /\ saved_heatmap_2 = <<>>
    /\ released = FALSE
    /\ stop_cause = "none"
    \* a processor built by a caller: the script's own state is not in play
    /\ hsv_ranges_file = <<>>
    /\ h_matrix_file = <<>>
    /\ main_classes_hsv_ranges = <<>>
    /\ main_H = <<>>
    /\ segmentation_windows = 0
    /\ homography_windows = 0

\* cap = cv2.VideoCapture(...); if not cap.isOpened(): return
OpenStream ==
    /\ pc = "open"
    /\ \E opened \in BOOLEAN :
          IF opened
          THEN pc' = "loop" /\ stop_cause' = stop_cause
          ELSE pc' = "returned" /\ stop_cause' = "open_failed"
    /\ UNCHANGED << H, classes_hsv_ranges, heatmap, heatmap_overlay_1,
                    heatmap_overlay_2, frames_left, detected_objects,
                    processed_frame, layout_2d, frames_written, saved_heatmap_1,
                    saved_heatmap_2, released >>
    /\ UNCHANGED main_vars

\* ret, frame = cap.read() with ret False: the stream has ended or the read
\* failed; the loop is left by the else branch.
ReadFails ==
    /\ pc = "loop"
    /\ pc' = "persist"
    /\ stop_cause' = IF frames_left = 0 THEN "end_of_stream" ELSE "read_failed"
    /\ UNCHANGED << H, classes_hsv_ranges, heatmap, heatmap_overlay_1,
                    heatmap_overlay_2, frames_left, detected_objects,
                    processed_frame, layout_2d, frames_written, saved_heatmap_1,
                    saved_heatmap_2, released >>
    /\ UNCHANGED main_vars

\* ret True and self.process_frame(frame): the tracker's detections are an
\* input of the frame.  An exception inside process_frame is caught nowhere
\* and ends process_video where it stands.
ProcessFrame ==
    /\ pc = "loop"
    /\ frames_left > 0
    /\ \E frame \in Frames, dets \in DetectionLists :
          LET r == process_frame(frame, dets, H, classes_hsv_ranges, heatmap)
          IN  /\ heatmap' = r.heatmap
              /\ detected_objects' = r.objs
              /\ IF r.ok
                 THEN /\ pc' = "snapshot"
                      /\ processed_frame' = r.camera
                      /\ layout_2d' = r.layout
                      /\ stop_cause' = stop_cause
                 ELSE /\ pc' = "aborted"
                      /\ stop_cause' = r.raised
                      /\ UNCHANGED << processed_frame, layout_2d >>
    /\ frames_left' = frames_left - 1
    /\ UNCHANGED << H, classes_hsv_ranges, heatmap_overlay_1, heatmap_overlay_2,
                    frames_written, saved_heatmap_1, saved_heatmap_2, released >>
    /\ UNCHANGED main_vars

\* colored_heatmaps = visualize_separate_heatmaps(heatmap) and the two
\* overlays, kept in self.heatmap_overlay_1 and self.heatmap_overlay_2.
Snapshot ==
    /\ pc = "snapshot"
    /\ LET colored_heatmaps == visualize_separate_heatmaps(heatmap)
       IN  /\ heatmap_overlay_1' = overlay_heatmap_on_image(colored_heatmaps[0])
           /\ heatmap_overlay_2' = overlay_heatmap_on_image(colored_heatmaps[1])
    /\ pc' = "write"
    /\ UNCHANGED << H, classes_hsv_ranges, heatmap, frames_left, detected_objects,
                    processed_frame, layout_2d, frames_written, saved_heatmap_1,
                    saved_heatmap_2, released, stop_cause >>
    /\ UNCHANGED main_vars

\* The canvas is assembled from the four panes and written:
\* out_composite.write(canvas).  The objects and panes of the frame are not
\* used after it.
WriteComposite ==
    /\ pc = "write"
    /\ frames_written' = frames_written + 1
    /\ detected_objects' = <<>>
    /\ processed_frame' = <<>>
    /\ layout_2d' = <<>>
    /\ pc' = "waitkey"
    /\ UNCHANGED << H, classes_hsv_ranges, heatmap, heatmap_overlay_1,
                    heatmap_overlay_2, frames_left, saved_heatmap_1,
                    saved_heatmap_2, released, stop_cause >>
    /\ UNCHANGED main_vars

\* WaitKey with the quit key returning from process_video at once.
WaitKey_ReturnOnQuit ==
    /\ pc = "waitkey"
    /\ \E key \in {"q", "other"} :
          IF key = "q"
          THEN pc' = "returned" /\ stop_cause' = "quit"
          ELSE pc' = "loop" /\ stop_cause' = stop_cause
    /\ UNCHANGED << H, classes_hsv_ranges, heatmap, heatmap_overlay_1,
                    heatmap_overlay_2, frames_left, detected_objects,
                    processed_frame, layout_2d, frames_written, saved_heatmap_1,
                    saved_heatmap_2, released >>
    /\ UNCHANGED main_vars

\* if cv2.waitKey(1) & 0xFF == ord('q'): break
WaitKey ==
    /\ pc = "waitkey"
    /\ \E key \in {"q", "other"} :
          IF key = "q"
          THEN pc' = "persist" /\ stop_cause' = "quit"
          ELSE pc' = "loop" /\ stop_cause' = stop_cause
    /\ UNCHANGED << H, classes_hsv_ranges, heatmap, heatmap_overlay_1,
                    heatmap_overlay_2, frames_left, detected_objects,
                    processed_frame, layout_2d, frames_written, saved_heatmap_1,
                    saved_heatmap_2, released >>
    /\ UNCHANGED main_vars

\* cv2.imwrite of self.heatmap_overlay_1 and self.heatmap_overlay_2
Persist ==
    /\ pc = "persist"
    /\ saved_heatmap_1' = << heatmap_overlay_1 >>
    /\ saved_heatmap_2' = << heatmap_overlay_2 >>
    /\ pc' = "release"
    /\ UNCHANGED << H, classes_hsv_ranges, heatmap, heatmap_overlay_1,
                    heatmap_overlay_2, frames_left, detected_objects,
                    processed_frame, layout_2d, frames_written, released,
                    stop_cause >>
    /\ UNCHANGED main_vars

\* cap.release(); out_composite.release(); cv2.destroyAllWindows()
Release ==
    /\ pc = "release"
    /\ released' = TRUE
    /\ pc' = "returned"
    /\ UNCHANGED << H, classes_hsv_ranges, heatmap, heatmap_overlay_1,
                    heatmap_overlay_2, frames_left, detected_objects,
                    processed_frame, layout_2d, frames_written, saved_heatmap_1,
                    saved_heatmap_2, stop_cause >>
    /\ UNCHANGED main_vars

Next ==
    \/ OpenStream
    \/ ReadFails
    \/ ProcessFrame
    \/ Snapshot
    \/ WriteComposite
    \/ WaitKey
    \/ Persist
    \/ Release

Spec == Init /\ [][Next]_vars

\* process_video runs on one thread and every call it makes returns, so the
\* run does not stand still where a step can be taken.  An iteration of the
\* loop starts with ReadFails or with ProcessFrame, which are enabled in the
\* same states while frames are left: the fairness of ReadFails keeps the
\* loop moving and leaves open which of the two happens.
FairSpec ==
    /\ Spec
    /\ WF_vars(OpenStream)
    /\ WF_vars(ReadFails)
    /\ WF_vars(Snapshot)
    /\ WF_vars(WriteComposite)
    /\ WF_vars(WaitKey)
    /\ WF_vars(Persist)
    /\ WF_vars(Release)

\* ---------------------------------------------------- the script -----------
\* setup_hsv_ranges(config, n_classes=2)
n_classes == 2

\* len(points_layout) >= 4 and len(points_frame) >= 4
MinPoints == 4

\* The trackbar positions the user can leave a class at when a key is pressed.
TrackbarRanges == { RedRange, BlueRange }

\* What the segmentation session appends for one class: the ranges on 'y',
\* None (<<>>) on 'n'.
KeyOutcomes == { <<>> } \cup { << r >> : r \in TrackbarRanges }

\* The numbers of points clicked on the layout and on the frame before 'q'.
ClickCounts == { 3, 4, 5 }

\* What cv2.findHomography gives for enough point pairs: a matrix with a last
\* entry of 1, or None when it finds no estimate.
FoundHomographies == { << IdentityH >>, << ScaleH >>, <<>> }

\* save_hsv_ranges: the list comprehension unpacks every entry into (lower,
\* upper) before the file is opened, and raises on an entry that is None; else
\* the file holds the list of [lower, upper] lists.
save_hsv_ranges(hsv_ranges) ==
    IF \E i \in 1 .. Len(hsv_ranges) : hsv_ranges[i] = <<>>
    THEN [ok |-> FALSE, file |-> <<>>]
    ELSE [ok |-> TRUE,
          file |-> << [i \in 1 .. Len(hsv_ranges) |->
                         << hsv_ranges[i][1][1], hsv_ranges[i][1][2] >>] >>]

\* load_hsv_ranges: the (lower, upper) pairs of the file's list.
load_hsv_ranges(file) ==
    [i \in 1 .. Len(file[1]) |-> << file[1][i][1], file[1][i][2] >>]

\* The calibration files a run can find: none, or what an earlier run or the
\* user left there.
HsvFiles == { <<>> } \cup { save_hsv_ranges([i \in 1 .. Len(rs) |-> << rs[i] >>]).file :
                            rs \in RangeLists }

HMatrixFiles == { <<>> } \cup { << h >> : h \in HChoices }

\* The script at the start of __main__, output directories created.
MainInit ==
    /\ pc = "setup_hsv_ranges"
    /\ hsv_ranges_file \in HsvFiles
    /\ h_matrix_file \in HMatrixFiles
    /\ main_classes_hsv_ranges = <<>>
    /\ main_H = <<>>
    /\ segmentation_windows = 0
    /\ homography_windows = 0
    /\ H = <<>>
    /\ classes_hsv_ranges = <<>>
    /\ heatmap = ZeroHeatmap
    /\ heatmap_overlay_1 = ZerosLikeTemplate
    /\ heatmap_overlay_2 = ZerosLikeTemplate
    /\ frames_left = MaxFrames
    /\ detected_objects = <<>>
    /\ processed_frame = <<>>
    /\ layout_2d = <<>>
    /\ frames_written = 0
    /\ saved_heatmap_1 = <<>>
    /\ saved_heatmap_2 = <<>>
    /\ released = FALSE
    /\ stop_cause = "none"

\* classes_hsv_ranges = setup_hsv_ranges(config, n_classes=2): the file is
\* loaded when it exists; else, when the two frames can be extracted, the
\* segmentation window is opened, a key outcome is collected per class, and
\* the list is saved and returned.  Without the frames it returns None.
SetupHsvRanges ==
    /\ pc = "setup_hsv_ranges"
    /\ IF hsv_ranges_file # <<>>
       THEN /\ main_classes_hsv_ranges' = << load_hsv_ranges(hsv_ranges_file) >>
            /\ pc' = "compute_homography_matrix"
            /\ UNCHANGED << hsv_ranges_file, segmentation_windows, stop_cause >>
       ELSE \E frames_extracted \in BOOLEAN :
              IF ~frames_extracted
              THEN /\ main_classes_hsv_ranges' = <<>>
                   /\ pc' = "compute_homography_matrix"
                   /\ UNCHANGED << hsv_ranges_file, segmentation_windows, stop_cause >>
              ELSE \E hsv_ranges_or_nans \in [1 .. n_classes -> KeyOutcomes] :
                     LET saved == save_hsv_ranges(hsv_ranges_or_nans)
                     IN  /\ segmentation_windows' = segmentation_windows + 1
                         /\ IF saved.ok
                            THEN /\ hsv_ranges_file' = saved.file
                                 /\ main_classes_hsv_ranges' =
                                       << [i \in 1 .. n_classes |->
                                              hsv_ranges_or_nans[i][1]] >>
                                 /\ pc' = "compute_homography_matrix"
                                 /\ stop_cause' = stop_cause
                            ELSE /\ pc' = "aborted"
                                 /\ stop_cause' = "save_hsv_ranges"
                                 /\ UNCHANGED << hsv_ranges_file,
                                                 main_classes_hsv_ranges >>
    /\ UNCHANGED << H, classes_hsv_ranges, heatmap, heatmap_overlay_1,
                    heatmap_overlay_2, frames_left, detected_objects,
                    processed_frame, layout_2d, frames_written, saved_heatmap_1,
                    saved_heatmap_2, released, h_matrix_file, main_H,
                    homography_windows >>

\* load_and_prepare_images and H = compute_homography_matrix(...): the file
\* is loaded when it exists (np.load refuses a file that holds None); else
\* the images are padded (which raises when the frame could not be read), the
\* window is opened and points are collected until 'q'.  With at least four
\* points on each side the matrix is estimated (which raises on sides of
\* different lengths), saved and returned; with fewer, None is returned and
\* nothing is saved.
ComputeHomographyMatrix ==
    /\ pc = "compute_homography_matrix"
    /\ IF h_matrix_file # <<>>
       THEN /\ IF h_matrix_file[1] # <<>>
               THEN /\ main_H' = h_matrix_file[1]
                    /\ pc' = "build_processor"
                    /\ stop_cause' = stop_cause
               ELSE /\ main_H' = main_H
                    /\ pc' = "aborted"
                    /\ stop_cause' = "np.load"
            /\ UNCHANGED << h_matrix_file, homography_windows >>
       ELSE \E ret \in BOOLEAN :
              IF ~ret
              THEN /\ pc' = "aborted"
                   /\ stop_cause' = "shape"
                   /\ UNCHANGED << h_matrix_file, main_H, homography_windows >>
              ELSE \E points_layout \in ClickCounts, points_frame \in ClickCounts :
                     /\ homography_windows' = homography_windows + 1
                     /\ IF points_layout >= MinPoints /\ points_frame >= MinPoints
                        THEN IF points_layout # points_frame
                             THEN /\ pc' = "aborted"
                                  /\ stop_cause' = "findHomography"
                                  /\ UNCHANGED << h_matrix_file, main_H >>
                             ELSE \E found \in FoundHomographies :
                                    /\ h_matrix_file' = << found >>
                                    /\ main_H' = found
                                    /\ pc' = "build_processor"
                                    /\ stop_cause' = stop_cause
                        ELSE /\ main_H' = <<>>
                             /\ pc' = "build_processor"
                             /\ UNCHANGED << h_matrix_file, stop_cause >>
    /\ UNCHANGED << H, classes_hsv_ranges, heatmap, heatmap_overlay_1,
                    heatmap_overlay_2, frames_left, detected_objects,
                    processed_frame, layout_2d, frames_written, saved_heatmap_1,
                    saved_heatmap_2, released, hsv_ranges_file,
                    main_classes_hsv_ranges, segmentation_windows >>

\* if H is not None: processor = VideoProcessor(config, classes_hsv_ranges, H)
\* and processor.process_video(); else the script prints and ends.
\* DetectionProcessor.__init__ takes len(classes_hsv_ranges), which raises on
\* None.
BuildProcessor ==
    /\ pc = "build_processor"
    /\ IF main_H = <<>>
       THEN /\ pc' = "returned"
            /\ stop_cause' = "no_homography"
            /\ UNCHANGED << H, classes_hsv_ranges, heatmap, heatmap_overlay_1,
                            heatmap_overlay_2 >>
       ELSE IF main_classes_hsv_ranges = <<>>
       THEN /\ pc' = "aborted"
            /\ stop_cause' = "len"
            /\ UNCHANGED << H, classes_hsv_ranges, heatmap, heatmap_overlay_1,
                            heatmap_overlay_2 >>
       ELSE /\ H' = main_H
            /\ classes_hsv_ranges' = main_classes_hsv_ranges[1]
            /\ heatmap' = ZeroHeatmap
            /\ heatmap_overlay_1' = ZerosLikeTemplate
            /\ heatmap_overlay_2' = ZerosLikeTemplate
            /\ pc' = "open"
            /\ stop_cause' = stop_cause
    /\ UNCHANGED << frames_left, detected_objects, processed_frame, layout_2d,
                    frames_written, saved_heatmap_1, saved_heatmap_2, released,
                    main_vars >>

MainNext ==
    \/ SetupHsvRanges
    \/ ComputeHomographyMatrix
    \/ BuildProcessor
    \/ OpenStream
    \/ ReadFails
    \/ ProcessFrame
    \/ Snapshot
    \/ WriteComposite
    \/ WaitKey
    \/ Persist
    \/ Release

\* The run of the script, from __main__ to the end of process_video.
MainSpec == MainInit /\ [][MainNext]_vars


\* ------------------------------------------------------------- claims ----
\* The integer layout points the objects of this run can be stamped at: the
\* projections, under the run's H, of the bottoms of the tracker's boxes.
RunPoints ==
    IF H = <<>> THEN {}
    ELSE { << IntOf(q[1].n, q[1].d), IntOf(q[2].n, q[2].d) >> :
             q \in { p \in { apply_homography_to_point(H[1], get_bbox_bottom(d.xyxy)) :
                               d \in Detections } :
                       IsFinite(p[1]) /\ IsFinite(p[2]) } }

Teams == 1 .. NumChannels

\* Cell c lies in the disk of radius circle_radius around (x, y).
InStampDisk(c, x, y) ==
    /\ Abs(c[1] - x) <= circle_radius
    /\ Abs(c[2] - y) <= circle_radius
    /\ (c[1] - x) * (c[1] - x) + (c[2] - y) * (c[2] - y) <= circle_radius * circle_radius

\* C1: no step of a run decreases any cell of any channel of the occupancy
\* grid, whatever the frames stamp and wherever the points fall.
C1_HeatmapNeverDecreases ==
    [][\A ch \in Channels : \A c \in Cells : heatmap'[ch][c] >= heatmap[ch][c]]_vars

\* A run under the scaling homography (points across the edge of and outside
\* the grid) has ended with a cell stamped three times.
C1_Witness ==
    /\ pc = "returned"
    /\ H = <<ScaleH>>
    /\ \E ch \in Channels : \E c \in Cells : heatmap[ch][c] >= 3

\* The ways the frame loop ends that C2 is about.
LoopStops == {"end_of_stream", "read_failed", "quit"}

\* The overlays of the last processed frame are on disk and the streams are
\* released.
PersistedAndClosed ==
    /\ saved_heatmap_1 = << heatmap_overlay_1 >>
    /\ saved_heatmap_2 = << heatmap_overlay_2 >>
    /\ released

\* C2: once the frame loop has stopped at the end of the stream, on a failed
\* read or on the quit key, the run goes on to persist the latest overlays
\* and to release the streams, in that order, before it returns; and every
\* run ends.
C2_StopPersistsAndCloses ==
    /\ [](( stop_cause \in LoopStops /\ pc = "returned") => PersistedAndClosed)
    /\ [](released => (saved_heatmap_1 # <<>> /\ saved_heatmap_2 # <<>>))
    /\ (stop_cause \in LoopStops) ~> (pc = "returned" /\ PersistedAndClosed)
    /\ <>(pc \in {"returned", "aborted"})

\* A run stopped by the quit key after a frame that stamped the grid has
\* returned with its overlays saved and its streams released.
C2_Witness ==
    /\ pc = "returned"
    /\ stop_cause = "quit"
    /\ PersistedAndClosed
    /\ ~heatmap_overlay_1.zeros
    /\ heatmap # ZeroHeatmap

\* The projection of object i divided by a zero third component.
IsDegenerate(obj) ==
    /\ obj.point_2d # <<>>
    /\ (~IsFinite(obj.point_2d[1][1]) \/ ~IsFinite(obj.point_2d[1][2]))

\* C3: a frame holding an object whose projection has a zero third component
\* is processed to its end: the run does not abort, every object has its
\* marker in the camera pane, and exactly the other objects are drawn in the
\* layout pane.
C3_DegeneratePointSkipped ==
    (\E i \in DOMAIN detected_objects : IsDegenerate(detected_objects[i]))
        => /\ pc # "aborted"
           /\ Len(processed_frame) = Len(detected_objects)
           /\ Len(layout_2d) =
                  Cardinality({ i \in DOMAIN detected_objects :
                                   ~IsDegenerate(detected_objects[i]) })

\* C4: the adapter turns every detection box into a DetectedObject without
\* raising, so no frame ends in the exception of the classifier, and an
\* object whose crop is empty has the default team 1.
C4_AdapterHandlesEveryBox ==
    /\ stop_cause # "cvtColor"
    /\ \A i \in DOMAIN detected_objects : \A frame \in Frames :
          FrameCrop(frame, detected_objects[i].bbox) = {} => detected_objects[i].id = 1

\* C5: an object labelled ball is given no team index.
C5_BallHasNoTeam ==
    \A i \in DOMAIN detected_objects :
        detected_objects[i].label = BallLabel
            => detected_objects[i].id \notin 1 .. Len(classes_hsv_ranges)

\* The intervals of indices 0 .. n-1, the empty one among them.
Intervals(n) == { a .. b : a \in 0 .. n, b \in -1 .. (n - 1) }

\* Every rectangular crop of a frame, the empty crop among them.
Crops(frame) ==
    { rows \X cols : rows \in Intervals(FrameH(frame)), cols \in Intervals(FrameW(frame)) }

Swap(dets, i, j) ==
    [k \in DOMAIN dets |-> IF k = i THEN dets[j] ELSE IF k = j THEN dets[i] ELSE dets[k]]

\* C7: on every grid the frame loop starts an iteration with, two stamps
\* give the same grid in either order, and a frame that is processed to its
\* end leaves the same grid whatever the order of two of its objects.
C7_StampsCommute ==
    pc = "loop" =>
        /\ \A p1 \in RunPoints : \A p2 \in RunPoints : \A t1 \in Teams : \A t2 \in Teams :
              Stamp(Stamp(heatmap, p1[1], p1[2], t1), p2[1], p2[2], t2)
                  = Stamp(Stamp(heatmap, p2[1], p2[2], t2), p1[1], p1[2], t1)
        /\ \A frame \in Frames : \A dets \in DetectionLists :
              \A i \in DOMAIN dets : \A j \in (i + 1) .. Len(dets) :
                  LET r1 == process_frame(frame, dets, H, classes_hsv_ranges, heatmap)
                      r2 == process_frame(frame, Swap(dets, i, j), H,
                                          classes_hsv_ranges, heatmap)
                  IN  r1.ok => (r2.ok /\ r2.heatmap = r1.heatmap)

\* A frame has stamped two objects of one team at two different points whose
\* disks overlap.
C7_Witness ==
    /\ pc = "snapshot"
    /\ Len(layout_2d) = 2
    /\ << layout_2d[1].x, layout_2d[1].y >> # << layout_2d[2].x, layout_2d[2].y >>
    /\ detected_objects[1].id = detected_objects[2].id
    /\ \E c \in Cells :
          /\ InStampDisk(c, layout_2d[1].x, layout_2d[1].y)
          /\ InStampDisk(c, layout_2d[2].x, layout_2d[2].y)
          /\ heatmap[detected_objects[1].id - 1][c] >= 2

\* Stamping (x, y) for team id n times, from grid g.
RECURSIVE StampTimes(_, _, _, _, _)
StampTimes(g, x, y, id, n) ==
    IF n = 0 THEN g ELSE StampTimes(Stamp(g, x, y, id), x, y, id, n - 1)

\* C8: a frame processed to its end adds to every cell of every channel the
\* number of its objects of that channel's team whose disk of radius 10
\* holds the cell, and nothing else; one stamp adds exactly 1 to the cells
\* of its disk in channel id - 1 and leaves every other cell and channel as
\* it was; three stamps of one point and team leave its centre cell with
\* three times the value of one.
C8_StampAddsOneOnDisk ==
    /\ [][(pc = "loop" /\ pc' = "snapshot")
            => \A ch \in Channels : \A c \in Cells :
                  heatmap'[ch][c] = heatmap[ch][c]
                      + Cardinality({ i \in DOMAIN layout_2d' :
                            /\ detected_objects'[i].id - 1 = ch
                            /\ InStampDisk(c, layout_2d'[i].x, layout_2d'[i].y) })]_vars
    /\ [](\A p \in RunPoints : \A t \in Teams :
            /\ \A ch \in Channels : \A c \in Cells :
                  Stamp(heatmap, p[1], p[2], t)[ch][c]
                      = heatmap[ch][c]
                          + (IF ch = t - 1 /\ InStampDisk(c, p[1], p[2]) THEN 1 ELSE 0)
            /\ p \in Cells =>
                  /\ Stamp(ZeroHeatmap, p[1], p[2], t)[t - 1][p] = 1
                  /\ StampTimes(ZeroHeatmap, p[1], p[2], t, 3)[t - 1][p]
                         = 3 * Stamp(ZeroHeatmap, p[1], p[2], t)[t - 1][p])

\* One point of the grid has been stamped three times for one team and
\* nothing else has: its centre cell holds 3 in that channel, the cells
\* outside its disk and the other channel hold 0.
C8_Witness ==
    /\ pc = "snapshot"
    /\ \E i \in DOMAIN layout_2d :
          LET x == layout_2d[i].x
              y == layout_2d[i].y
              ch == detected_objects[i].id - 1
          IN  /\ << x, y >> \in Cells
              /\ heatmap[ch][<< x, y >>] = 3
              /\ \A c \in Cells : ~InStampDisk(c, x, y) => heatmap[ch][c] = 0
              /\ \E c \in Cells : ~InStampDisk(c, x, y)
              /\ \A o \in Channels \ {ch} : \A c \in Cells : heatmap[o][c] = 0

\* No cell of the grid lies in the disk around (x, y).
DiskOutsideGrid(x, y) == \A c \in Cells : ~InStampDisk(c, x, y)

\* The disk around (x, y) holds cells of the grid and places outside it.
DiskAcrossEdge(x, y) ==
    /\ \E c \in Cells : InStampDisk(c, x, y)
    /\ \/ x - circle_radius < 0
       \/ y - circle_radius < 0
       \/ x + circle_radius > LayoutW - 1
       \/ y + circle_radius > LayoutH - 1

\* An object of team id whose projected point is (x, y).
ObjectAt(x, y, id) ==
    [bbox |-> ZeroAreaBox, id |-> id, label |-> PlayerLabel,
     point_2d |-> << << [n |-> x, d |-> 1], [n |-> y, d |-> 1] >> >>]

C10_NoHomographyNoAccumulation ==
    H = <<>> =>
        /\ \A i \in DOMAIN detected_objects : detected_objects[i].point_2d = <<>>
        /\ heatmap = ZeroHeatmap
        /\ layout_2d = <<>>

\* Without a homography a frame with two objects has been processed and its
\* composite is about to be assembled.
C10_Witness ==
    /\ H = <<>>
    /\ pc = "snapshot"
    /\ Len(detected_objects) = 2
    /\ Len(processed_frame) = 2
    /\ frames_written = 1

\* A step of the script's range setup that finds its file: the file is left
\* as it is, its content is what the script goes on with, and no window opens.
HsvFileLoadedAsIs ==
    /\ hsv_ranges_file' = hsv_ranges_file
    /\ main_classes_hsv_ranges' = hsv_ranges_file
    /\ segmentation_windows' = segmentation_windows

\* A step of the range setup that finds no file: the window opens, and what
\* the session gave is in the file and is what the script goes on with.
HsvSessionPersisted ==
    /\ segmentation_windows' = segmentation_windows + 1
    /\ hsv_ranges_file' # <<>>
    /\ main_classes_hsv_ranges' = hsv_ranges_file'

\* The same two for the homography matrix.
HMatrixFileLoadedAsIs ==
    /\ h_matrix_file' = h_matrix_file
    /\ main_H' = h_matrix_file[1]
    /\ homography_windows' = homography_windows

HMatrixSessionPersisted ==
    /\ homography_windows' = homography_windows + 1
    /\ h_matrix_file' = << main_H' >>

\* C11: for each of the two calibration artifacts, a file that exists at
\* startup is loaded as it is and the interactive tool is never opened; with
\* no file the tool runs once and its result is in the file before the frame
\* loop starts, whatever the session gave (a class rejected with 'n', fewer
\* than four point pairs).
C11_CalibrationLoadedOrPersisted ==
    /\ [][pc = "setup_hsv_ranges" =>
             IF hsv_ranges_file # <<>> THEN HsvFileLoadedAsIs
                                       ELSE HsvSessionPersisted]_vars
    /\ [][pc = "compute_homography_matrix" =>
             IF h_matrix_file # <<>> THEN HMatrixFileLoadedAsIs
                                     ELSE HMatrixSessionPersisted]_vars
    /\ [][pc # "setup_hsv_ranges" =>
             (segmentation_windows' = segmentation_windows
                 /\ hsv_ranges_file' = hsv_ranges_file)]_vars
    /\ [][pc # "compute_homography_matrix" =>
             (homography_windows' = homography_windows
                 /\ h_matrix_file' = h_matrix_file)]_vars
    /\ [](pc = "loop" => /\ hsv_ranges_file = << classes_hsv_ranges >>
                         /\ h_matrix_file = << H >>)

\* The frames read from the stream so far.
FramesRead == MaxFrames - frames_left

\* The two lower panes show the grid as it stands.
OverlaysShowHeatmap ==
    /\ heatmap_overlay_1 = overlay_heatmap_on_image(visualize_separate_heatmaps(heatmap)[0])
    /\ heatmap_overlay_2 = overlay_heatmap_on_image(visualize_separate_heatmaps(heatmap)[1])

\* C12: frames are taken in stream order and every frame that was read gives
\* exactly one written composite: the grid changes only while the frame is
\* processed, before the snapshot; the k-th composite is written with panes
\* that show the grid after frames 1..k; and the quit key is looked at only
\* after the write.
C12_OneCompositePerFrameInOrder ==
    /\ [](pc \notin {"snapshot", "write"} => frames_written = FramesRead)
    /\ [][heatmap' # heatmap =>
             (pc = "loop" /\ frames_left' = frames_left - 1)]_vars
    /\ [][frames_left' # frames_left =>
             (pc = "loop" /\ frames_left' = frames_left - 1
                 /\ frames_written = FramesRead)]_vars
    /\ [][frames_written' # frames_written =>
             /\ frames_written' = frames_written + 1
             /\ frames_written' = FramesRead
             /\ pc = "write" /\ pc' = "waitkey"
             /\ OverlaysShowHeatmap
             /\ heatmap' = heatmap]_vars
    /\ [][pc = "waitkey" => frames_written = FramesRead]_vars

\* The scores of the ranges on a crop, and the ranges that reach the maximum.
ScoresOf(frame, crop) ==
    [i \in 1 .. Len(classes_hsv_ranges) |-> ClassScore(frame, crop, classes_hsv_ranges[i])]

TiedForMax(scores) ==
    { i \in 1 .. Len(scores) : \A j \in 1 .. Len(scores) : scores[j] <= scores[i] }

\* The index is the lowest of the ranges tied for the maximum of the scores.
IsFirstMax(id, scores) ==
    /\ id \in TiedForMax(scores)
    /\ \A k \in TiedForMax(scores) : id <= k

\* C13: on every crop that holds a pixel the classifier returns the
\* lowest-indexed of the ranges that reach the maximum score, so among tied
\* ranges the first wins and a crop that matches no range is team 1; the same
\* for the id of every detected object.
C13_FirstMaxWins ==
    /\ \A frame \in Frames : \A crop \in Crops(frame) \ { {} } :
          LET r == predict_class_by_color(frame, crop, classes_hsv_ranges)
              scores == ScoresOf(frame, crop)
          IN  /\ r.ok
              /\ IsFirstMax(r.id, scores)
              /\ (\A i \in DOMAIN scores : scores[i] = 0) => r.id = 1
    /\ \A i \in DOMAIN detected_objects : \E frame \in Frames :
          IsFirstMax(detected_objects[i].id,
                     ScoresOf(frame, FrameCrop(frame, detected_objects[i].bbox)))

\* Under two ranges a frame has given an object whose crop matches neither
\* the id 1, and another crop of the frame has the two ranges tied for a
\* maximum above zero.
C13_Witness ==
    /\ Len(classes_hsv_ranges) = 2
    /\ \E i \in DOMAIN detected_objects : \E frame \in Frames :
          LET scores == ScoresOf(frame, FrameCrop(frame, detected_objects[i].bbox))
          IN  /\ \A k \in DOMAIN scores : scores[k] = 0
              /\ detected_objects[i].id = 1
    /\ \E frame \in Frames : \E crop \in Crops(frame) :
          LET scores == ScoresOf(frame, crop)
          IN  /\ crop # {}
              /\ TiedForMax(scores) = {1, 2}
              /\ scores[1] > 0
              /\ predict_class_by_color(frame, crop, classes_hsv_ranges).id = 1

\* C14: every stamp addresses a channel the grid has: whatever the number of
\* calibrated ranges, the channel index (id - 1) of every object stamped in a
\* frame is one of the grid's channels, of which there are two from the
\* creation of the grid on, and no run ends on a channel that does not exist;
\* the snapshot has the two channels the run reads.
C14_StampChannelExists ==
    /\ DOMAIN heatmap = 0 .. 1
    /\ H # <<>> => \A i \in DOMAIN detected_objects :
                      (detected_objects[i].id - 1) \in DOMAIN heatmap
    /\ stop_cause # "index"
    /\ {0, 1} \subseteq DOMAIN visualize_separate_heatmaps(heatmap)

====
